---- MODULE Spec2Model ----
(***************************************************************************)
(* Privacy Badger (Firefox) lib/utils.js: the domain-hierarchy helpers      *)
(* (getParentDomain, checkEachParentDomainString) and the third-party       *)
(* classifiers (isThirdPartyURI, isThirdPartyChannel).                      *)
(*                                                                         *)
(* A string is a sequence of tokens.  A host such as radio.bbc.co.uk is    *)
(* <<"radio", ".", "bbc", ".", "co", ".", "uk">>; split('.') and join('.') *)
(* are computed on that representation.                                     *)
(***************************************************************************)
EXTENDS Integers, Sequences, FiniteSets, TLC

VARIABLES op, pc, uri, docUri, ignoreSelf, resolution,
          suffixLength, hostArray, tested, answers, outcome, result

vars == <<op, pc, uri, docUri, ignoreSelf, resolution,
          suffixLength, hostArray, tested, answers, outcome, result>>

----------------------------------------------------------------------------
(* Bounds of the model *)

\* the largest number of labels of a host handed to the domain helpers
MaxLabels == 4

\* the largest number of labels of the host of a URL handed to the classifiers
MaxUrlLabels == 3

----------------------------------------------------------------------------
(* Strings *)

Dot == "."

LabelTokens == {"radio", "bbc", "co", "uk"}

\* a label of a well-formed host is one token; the empty label is what a
\* leading dot, a trailing dot or a double dot produces
Labels == { <<t>> : t \in LabelTokens }

EmptyLabel == << >>

RECURSIVE Join(_)
\* Array.prototype.join('.')
Join(a) ==
  IF a = << >> THEN << >>
  ELSE IF Len(a) = 1 THEN a[1]
  ELSE a[1] \o <<Dot>> \o Join(Tail(a))

RECURSIVE Split(_)
\* String.prototype.split('.'): never the empty array, ''.split('.') is ['']
Split(s) ==
  IF s = << >> THEN << << >> >>
  ELSE LET rest == Split(Tail(s))
       IN  IF Head(s) = Dot
           THEN << << >> >> \o rest
           ELSE << <<Head(s)>> \o Head(rest) >> \o Tail(rest)

\* Array.prototype.shift(): drops the first element, a no-op on []
Shift(a) == IF a = << >> THEN a ELSE Tail(a)

\* Array.prototype.slice(1)
Slice1(a) == IF a = << >> THEN a ELSE Tail(a)

\* the last n elements of the array a
LastN(a, n) == SubSeq(a, Len(a) - n + 1, Len(a))

RECURSIVE IndexOfFrom(_, _, _)
IndexOfFrom(a, x, i) ==
  IF i > Len(a) THEN -1
  ELSE IF a[i] = x THEN i - 1
  ELSE IndexOfFrom(a, x, i + 1)

\* Array.prototype.indexOf: the 0-based index of x in a, or -1
IndexOf(a, x) == IndexOfFrom(a, x, 1)

\* label arrays of n labels
RECURSIVE LabelArrays(_, _)
LabelArrays(S, n) ==
  IF n = 0 THEN { << >> }
  ELSE { <<l>> \o r : l \in S, r \in LabelArrays(S, n - 1) }

\* the hosts handed to the domain helpers: 1..MaxLabels labels, malformed
\* hosts (an empty label) included
Hosts ==
  { Join(a) : a \in UNION { LabelArrays(Labels \cup {EmptyLabel}, n) : n \in 1..MaxLabels } }

----------------------------------------------------------------------------
(* The platform's effective-TLD service (Services.eTLD) and third-party    *)
(* utility, behind the calls of utils.js                                    *)

Thrown == [ok |-> FALSE, val |-> << >>]

Returned(v) == [ok |-> TRUE, val |-> v]

\* the rules of the public suffix list, besides the default rule "*"
PublicSuffixList == { Join(<< <<"uk">> >>), Join(<< <<"co">>, <<"uk">> >>) }

WellFormed(host) == \A i \in 1..Len(Split(host)) : Split(host)[i] # EmptyLabel

\* the label count of the longest rule that matches the host; 1 by the
\* default rule
SuffixLabels(host) ==
  LET a == Split(host)
      matching == { n \in 1..Len(a) : Join(LastN(a, n)) \in PublicSuffixList }
  IN  IF matching = {} THEN 1
      ELSE CHOOSE n \in matching : \A m \in matching : m <= n

\* eTLDService.getPublicSuffix: throws on a host it cannot resolve
getPublicSuffix(host) ==
  IF ~WellFormed(host) THEN Thrown
  ELSE Returned(Join(LastN(Split(host), SuffixLabels(host))))

\* eTLDService.getBaseDomain: the public suffix plus one label; throws on a
\* host it cannot resolve and on a host that is a bare public suffix
eTLDgetBaseDomain(host) ==
  IF ~WellFormed(host) THEN Thrown
  ELSE IF Len(Split(host)) <= SuffixLabels(host) THEN Thrown
  ELSE Returned(Join(LastN(Split(host), SuffixLabels(host) + 1)))

\* ThirdPartyUtil.getBaseDomain: as eTLDService.getBaseDomain, with the host
\* itself standing for a host that has too few labels
getBaseDomain(host) ==
  IF ~WellFormed(host) THEN Thrown
  ELSE IF Len(Split(host)) <= SuffixLabels(host) THEN Returned(host)
  ELSE eTLDgetBaseDomain(host)

----------------------------------------------------------------------------
(* URLs and the URI parser (ABPUtils.makeURI)                               *)

Scheme == "http://"

Path == "/x"

\* the hosts of the URLs handed to the classifiers
UrlHosts ==
  { Join(a) : a \in UNION { LabelArrays(Labels, n) : n \in 1..MaxUrlLabels } }

\* "http://localhost:8099/test-request-3rd-party-cookieblock.sjs"
FixtureURL ==
  <<Scheme, "localhost", ":8099", "/test-request-3rd-party-cookieblock.sjs">>

\* Pretend these are 3p for tests
fakeThirdPartyURLs == << FixtureURL >>

\* strings that are no URL: no scheme, and no host
MalformedURLs == { <<"radio", Path>>, <<Scheme, Path>> }

WellFormedURLs == { <<Scheme>> \o h \o <<Path>> : h \in UrlHosts } \cup {FixtureURL}

URLs == WellFormedURLs \cup MalformedURLs

PathTokens == {Path, "/test-request-3rd-party-cookieblock.sjs"}

PortTokens == {":8099"}

\* the tokens of the URL between the scheme and the port or path
RECURSIVE HostPart(_)
HostPart(s) ==
  IF s = << >> \/ Head(s) \in PathTokens \cup PortTokens THEN << >>
  ELSE <<Head(s)>> \o HostPart(Tail(s))

\* ABPUtils.makeURI: the nsIURI of a URL string (its host is what the
\* classifiers use); throws on a string that is no URL
makeURI(url) ==
  IF url = << >> \/ Head(url) # Scheme THEN Thrown
  ELSE IF url[Len(url)] \notin PathTokens THEN Thrown
  ELSE IF HostPart(Tail(url)) = << >> \/ ~WellFormed(HostPart(Tail(url))) THEN Thrown
  ELSE Returned([host |-> HostPart(Tail(url))])

\* ThirdPartyUtil.isThirdPartyURI: the two URIs' base domains differ
ThirdPartyUtil_isThirdPartyURI(aURI, aDocURI) ==
  LET first == getBaseDomain(aURI.host)
      second == getBaseDomain(aDocURI.host)
  IN  IF ~first.ok \/ ~second.ok THEN Thrown
      ELSE Returned(first.val # second.val)

----------------------------------------------------------------------------
(* exports.isThirdPartyURI *)

isThirdPartyURI_NoAllowList(u, d) ==
  LET a == makeURI(u)
      b == makeURI(d)
  IN  IF ~a.ok THEN Thrown
      ELSE IF ~b.ok THEN Thrown
      ELSE ThirdPartyUtil_isThirdPartyURI(a.val, b.val)

isThirdPartyURI_DocUnparsed(u, d) ==
  IF IndexOf(fakeThirdPartyURLs, u) # -1 THEN Returned(TRUE)
  ELSE LET a == makeURI(u)
           b == makeURI(d)
       IN  IF ~a.ok THEN Thrown
           ELSE IF ~b.ok THEN Returned(TRUE)
           ELSE ThirdPartyUtil_isThirdPartyURI(a.val, b.val)

isThirdPartyURI(u, d) ==
  IF IndexOf(fakeThirdPartyURLs, u) # -1 THEN Returned(TRUE)
  ELSE LET a == makeURI(u)
           b == makeURI(d)
       IN  IF ~a.ok THEN Thrown
           ELSE IF ~b.ok THEN Thrown
           ELSE ThirdPartyUtil_isThirdPartyURI(a.val, b.val)

----------------------------------------------------------------------------
(* exports.isThirdPartyChannel *)

\* what ThirdPartyUtil.isThirdPartyChannel does for the channel: it answers
\* third-party or first-party, or it throws (no load context, no window)
Resolutions == {"third", "first", "throws"}

isThirdPartyChannel_NoCatch(spec, res) ==
  IF IndexOf(fakeThirdPartyURLs, spec) # -1 THEN Returned(TRUE)
  ELSE IF res = "throws" THEN Thrown
  ELSE Returned(res = "third")

\* spec is channel.URI.spec, res the platform's answer for the channel
isThirdPartyChannel(spec, res) ==
  IF IndexOf(fakeThirdPartyURLs, spec) # -1 THEN Returned(TRUE)
  ELSE IF res = "throws" THEN Returned(FALSE)
  ELSE Returned(res = "third")

----------------------------------------------------------------------------
(* exports.getParentDomain *)

getParentDomain_Threshold4(host) ==
  LET suffix == getPublicSuffix(host)
  IN  IF ~suffix.ok THEN Thrown
      ELSE LET sl == Len(Split(suffix.val))
               ha == Split(host)
           IN  IF Len(ha) - sl < 4
               THEN eTLDgetBaseDomain(host)
               ELSE Returned(Join(Slice1(ha)))

getParentDomain(host) ==
  LET suffix == getPublicSuffix(host)
  IN  IF ~suffix.ok THEN Thrown
      ELSE LET sl == Len(Split(suffix.val))
               ha == Split(host)
           IN  \* is this already an eTLD+1 or an eTLD+2? return the eTLD+1
               IF Len(ha) - sl < 3
               THEN eTLDgetBaseDomain(host)
               \* eat away at the left
               ELSE Returned(Join(Slice1(ha)))

----------------------------------------------------------------------------
(* exports.checkEachParentDomainString *)

SuffixLengthOf_Swallowed(host) ==
  LET suffix == getPublicSuffix(host)
  IN  IF ~suffix.ok THEN Returned(0)
      ELSE Returned(Len(Split(suffix.val)))

\* let suffix = eTLDService.getPublicSuffix(uri);
\* let suffixLength = suffix.split('.').length;
SuffixLengthOf(host) ==
  LET suffix == getPublicSuffix(host)
  IN  IF ~suffix.ok THEN Thrown
      ELSE Returned(Len(Split(suffix.val)))

InitialHostArray_SelfKept(host, ig) == Split(host)

\* let hostArray = uri.host.split('.');
\* if (ignoreSelf) { hostArray.shift(); }
InitialHostArray(host, ig) ==
  IF ig THEN Shift(Split(host)) ELSE Split(host)

WalkContinues_ThroughSuffix(ha, sl) == Len(ha) - sl >= 0 /\ ha # << >>

WalkContinues_AboveBase(ha, sl) == Len(ha) - sl > 1

\* while (hostArray.length - suffixLength > 0)
WalkContinues(ha, sl) == Len(ha) - sl > 0

ReturnsOn_Never(r) == FALSE

\* if (result) { return true; }
ReturnsOn(r) == r

AfterTest_NoShift(ha) == ha

AfterTest_TwoShifts(ha) == Shift(Shift(ha))

\* hostArray.shift();
AfterTest(ha) == Shift(ha)

----------------------------------------------------------------------------
(* The state machine: one call of one exported function *)

Functions == {"checkEachParentDomainString", "getParentDomain",
              "isThirdPartyURI", "isThirdPartyChannel"}

NoValue == "none"

Init ==
  /\ op = NoValue
  /\ pc = "idle"
  /\ uri = << >>
  /\ docUri = << >>
  /\ ignoreSelf = FALSE
  /\ resolution = NoValue
  /\ suffixLength = 0
  /\ hostArray = << >>
  /\ tested = << >>
  /\ answers = << >>
  /\ outcome = NoValue
  /\ result = NoValue

\* the call ends: it returns r.val, or it throws
Ends(r) ==
  /\ pc' = "done"
  /\ outcome' = IF r.ok THEN "returned" ELSE "threw"
  /\ result' = IF r.ok THEN r.val ELSE NoValue

\* isThirdPartyURI(uri, docUri), from its call to its end
CallIsThirdPartyURI ==
  /\ pc = "idle"
  /\ \E u \in URLs, d \in URLs :
       /\ op' = "isThirdPartyURI"
       /\ uri' = u
       /\ docUri' = d
       /\ Ends(isThirdPartyURI(u, d))
  /\ UNCHANGED <<ignoreSelf, resolution, suffixLength, hostArray, tested, answers>>

\* isThirdPartyChannel(channel), from its call to its end
CallIsThirdPartyChannel ==
  /\ pc = "idle"
  /\ \E u \in WellFormedURLs, res \in Resolutions :
       /\ op' = "isThirdPartyChannel"
       /\ uri' = u
       /\ resolution' = res
       /\ Ends(isThirdPartyChannel(u, res))
  /\ UNCHANGED <<docUri, ignoreSelf, suffixLength, hostArray, tested, answers>>

\* getParentDomain(uri), from its call to its end
CallGetParentDomain ==
  /\ pc = "idle"
  /\ \E h \in Hosts :
       /\ op' = "getParentDomain"
       /\ uri' = h
       /\ Ends(getParentDomain(h))
  /\ UNCHANGED <<docUri, ignoreSelf, resolution, suffixLength, hostArray, tested, answers>>

\* checkEachParentDomainString(uri, stringCallback, ignoreSelf), from its
\* call to the first test of the loop condition
CallCheckEachParentDomainString ==
  /\ pc = "idle"
  /\ \E h \in Hosts, ig \in BOOLEAN :
       /\ op' = "checkEachParentDomainString"
       /\ uri' = h
       /\ ignoreSelf' = ig
       /\ LET sl == SuffixLengthOf(h)
          IN  IF ~sl.ok
              THEN /\ Ends(Thrown)
                   /\ UNCHANGED <<suffixLength, hostArray>>
              ELSE /\ suffixLength' = sl.val
                   /\ hostArray' = InitialHostArray(h, ig)
                   /\ pc' = "loop"
                   /\ UNCHANGED <<outcome, result>>
  /\ UNCHANGED <<docUri, resolution, tested, answers>>

\* one iteration of the loop: stringCallback is called on the joined
\* hostArray and answers r
TestString ==
  /\ pc = "loop"
  /\ WalkContinues(hostArray, suffixLength)
  /\ \E r \in BOOLEAN :
       /\ tested' = Append(tested, Join(hostArray))
       /\ answers' = Append(answers, r)
       /\ IF ReturnsOn(r)
          THEN /\ Ends(Returned(TRUE))
               /\ UNCHANGED hostArray
          ELSE /\ hostArray' = AfterTest(hostArray)
               /\ UNCHANGED <<pc, outcome, result>>
  /\ UNCHANGED <<op, uri, docUri, ignoreSelf, resolution, suffixLength>>

\* the loop condition fails: return false
WalkExhausted ==
  /\ pc = "loop"
  /\ ~WalkContinues(hostArray, suffixLength)
  /\ Ends(Returned(FALSE))
  /\ UNCHANGED <<op, uri, docUri, ignoreSelf, resolution, suffixLength,
                 hostArray, tested, answers>>

Next ==
  \/ CallIsThirdPartyURI
  \/ CallIsThirdPartyChannel
  \/ CallGetParentDomain
  \/ CallCheckEachParentDomainString
  \/ TestString
  \/ WalkExhausted

Spec == Init /\ [][Next]_vars

\* a call of checkEachParentDomainString runs synchronously to its end: the
\* loop is never left suspended
WalkSpec == Init /\ [][Next]_vars /\ WF_vars(TestString) /\ WF_vars(WalkExhausted)

----------------------------------------------------------------------------
(* Vocabulary of the properties, stated on strings and on the public        *)
(* suffix list, not on the helpers above                                     *)

IsWalk == op = "checkEachParentDomainString"

\* the walk got past the suffix lookup
Walking == IsWalk /\ outcome # "threw"

LabelCount(s) == Len(Split(s))

\* the labels of host h to the left of its public suffix
LabelsBeyondSuffix(h) == LabelCount(h) - SuffixLabels(h)

\* s with exactly its leftmost label removed
DropLeftmost(s) == Join(Tail(Split(s)))

\* the public suffix of h, as a string
PublicSuffixString(h) == Join(LastN(Split(h), SuffixLabels(h)))

\* the public suffix plus one label, of a host that has one
BaseDomainString(h) == Join(LastN(Split(h), SuffixLabels(h) + 1))

HasBaseDomain(h) == WellFormed(h) /\ LabelsBeyondSuffix(h) >= 1

AllFalse == \A i \in 1..Len(answers) : ~answers[i]

SomeTrue == \E i \in 1..Len(answers) : answers[i]

InAllowList(u) == \E i \in 1..Len(fakeThirdPartyURLs) : fakeThirdPartyURLs[i] = u

\* the host of a well-formed URL
HostOfURL(u) ==
  IF u = FixtureURL THEN <<"localhost">>
  ELSE CHOOSE h \in UrlHosts : u = <<Scheme>> \o h \o <<Path>>

\* the unit of first-party identity: the base domain, or the host itself
\* where the host is a bare suffix
SiteOf(u) ==
  LET h == HostOfURL(u)
  IN  IF LabelsBeyondSuffix(h) >= 1 THEN BaseDomainString(h) ELSE h

HostRadioBbcCoUk == Join(<< <<"radio">>, <<"bbc">>, <<"co">>, <<"uk">> >>)

HostBbcCoUk == Join(<< <<"bbc">>, <<"co">>, <<"uk">> >>)

----------------------------------------------------------------------------
(* C1 *)

\* C1: with ignoreSelf unset and a predicate that answers false every time,
\* the strings are tested in descending specificity: the first one tested is
\* the host itself, each later one is the previous one without its leftmost
\* label, none is tested twice, and a host with labels beyond its suffix has
\* been tested when the call ends.
C1_DescendingOrder ==
  (Walking /\ ~ignoreSelf /\ AllFalse) =>
     /\ (tested # << >> => tested[1] = uri)
     /\ \A i \in 2..Len(tested) : tested[i] = DropLeftmost(tested[i - 1])
     /\ \A i, j \in 1..Len(tested) : i < j => tested[i] # tested[j]
     /\ (pc = "done" => Len(tested) = LabelsBeyondSuffix(uri))

C1_Witness ==
  /\ Walking /\ ~ignoreSelf /\ AllFalse
  /\ pc = "done"
  /\ Len(tested) = 3
  /\ tested[1] = uri

----------------------------------------------------------------------------
(* C2 *)

C2_ShortCircuitState ==
  IsWalk =>
     /\ \A i \in 1..(Len(answers) - 1) : ~answers[i]
     /\ (SomeTrue => pc = "done" /\ outcome = "returned" /\ result = TRUE)
     /\ (pc = "done" /\ outcome = "returned" => (result = FALSE <=> AllFalse))

\* C2: a true answer ends the call with true and is the last invocation of
\* the predicate; the call returns false exactly when every answer was false
\* (also when there was none); and a walk that has begun ends.
C2_ShortCircuit ==
  /\ [](C2_ShortCircuitState)
  /\ [][(IsWalk /\ SomeTrue) => (tested' = tested /\ answers' = answers)]_vars
  /\ ((IsWalk /\ pc = "loop") ~> (pc = "done"))

C2_Witness ==
  /\ IsWalk /\ pc = "done" /\ outcome = "returned"
  /\ result = TRUE
  /\ Len(answers) = 2
  /\ ~answers[1] /\ answers[2]
  /\ LabelsBeyondSuffix(uri) > 2

----------------------------------------------------------------------------
(* C3 *)

----------------------------------------------------------------------------
(* C4 *)

----------------------------------------------------------------------------
(* C5 *)

\* C5 as stated: with ignoreSelf set, for every valid host, its own base
\* domain included, the predicate is never invoked on the host itself and is
\* invoked on the host's immediate parent, the first string tested.
C5_ParentAlwaysTested ==
  (Walking /\ ignoreSelf /\ HasBaseDomain(uri) /\ pc = "done") =>
     /\ \A i \in 1..Len(tested) : tested[i] # uri
     /\ tested # << >>
     /\ tested[1] = DropLeftmost(uri)

\* C5, amended: with ignoreSelf set the predicate is never invoked on the
\* host itself; for a host with two or more labels beyond its public suffix
\* the first string tested is the host's immediate parent; for a host that
\* is its own base domain (or a bare suffix) the predicate is not invoked at
\* all and the call returns false.
C5_ParentTestedBelowBase ==
  (Walking /\ ignoreSelf) =>
     /\ \A i \in 1..Len(tested) : tested[i] # uri
     /\ (tested # << >> => tested[1] = DropLeftmost(uri))
     /\ (pc = "done" =>
           IF LabelsBeyondSuffix(uri) >= 2
           THEN tested # << >>
           ELSE tested = << >> /\ outcome = "returned" /\ result = FALSE)

C5_Witness ==
  /\ Walking /\ ignoreSelf /\ pc = "done"
  /\ LabelsBeyondSuffix(uri) >= 2
  /\ tested # << >>
  /\ tested[1] = DropLeftmost(uri)

----------------------------------------------------------------------------
(* C6 *)

\* C6: isThirdPartyURI returns true for a request URL of the allow-list;
\* otherwise, both URLs being URLs, it returns true exactly when the two
\* hosts' base domains differ; so isThirdPartyURI(u, u) is false for u
\* outside the allow-list and true for u inside.
C6_ThirdPartyByBaseDomain ==
  (op = "isThirdPartyURI" /\ pc = "done") =>
     /\ (InAllowList(uri) => outcome = "returned" /\ result = TRUE)
     /\ (~InAllowList(uri) /\ uri \in WellFormedURLs /\ docUri \in WellFormedURLs
           => /\ outcome = "returned"
              /\ (result = TRUE <=> SiteOf(uri) # SiteOf(docUri)))
     /\ (uri = docUri /\ uri \in WellFormedURLs
           => outcome = "returned" /\ result = InAllowList(uri))

C6_Witness ==
  /\ op = "isThirdPartyURI" /\ pc = "done" /\ outcome = "returned"
  /\ ~InAllowList(uri)
  /\ HostOfURL(uri) # HostOfURL(docUri)
  /\ result = FALSE

----------------------------------------------------------------------------
(* C7 *)

\* C7 as stated: isThirdPartyChannel never throws, and returns false
\* whenever the resolution of the channel's context fails.
C7_FalseOnFailedResolution ==
  (op = "isThirdPartyChannel" /\ pc = "done") =>
     /\ outcome = "returned"
     /\ result \in BOOLEAN
     /\ (resolution = "throws" => result = FALSE)

\* C7, amended: isThirdPartyChannel never throws; where the resolution of
\* the channel's context fails it returns false, unless the channel's URL is
\* in the allow-list: then it returns true and the context is not consulted.
C7_FalseOnFailedResolutionOutsideAllowList ==
  (op = "isThirdPartyChannel" /\ pc = "done") =>
     /\ outcome = "returned"
     /\ result \in BOOLEAN
     /\ (resolution = "throws" => result = InAllowList(uri))

C7_Witness ==
  /\ op = "isThirdPartyChannel" /\ pc = "done" /\ outcome = "returned"
  /\ resolution = "throws"
  /\ ~InAllowList(uri)
  /\ result = FALSE

----------------------------------------------------------------------------
(* C8 *)

\* C8 as stated: isThirdPartyURI throws, and returns no verdict, whenever
\* either of its two arguments is a string that does not parse as a URL.
C8_ThrowsOnEitherUnparsed ==
  (op = "isThirdPartyURI" /\ pc = "done"
     /\ (uri \in MalformedURLs \/ docUri \in MalformedURLs))
  => outcome = "threw"

\* C8, amended: isThirdPartyURI throws, and returns no verdict, whenever
\* either argument does not parse as a URL, unless the request URL is in the
\* allow-list: then it returns true and neither argument is parsed.
C8_ThrowsOnEitherUnparsedOutsideAllowList ==
  (op = "isThirdPartyURI" /\ pc = "done"
     /\ (uri \in MalformedURLs \/ docUri \in MalformedURLs))
  => IF InAllowList(uri)
     THEN outcome = "returned" /\ result = TRUE
     ELSE outcome = "threw" /\ result = NoValue

C8_Witness ==
  /\ op = "isThirdPartyURI" /\ pc = "done"
  /\ uri \in WellFormedURLs
  /\ ~InAllowList(uri)
  /\ docUri \in MalformedURLs
  /\ outcome = "threw"

----------------------------------------------------------------------------
(* C9 *)

----------------------------------------------------------------------------
(* C10 *)

\* C10: where the public suffix of the host cannot be determined,
\* checkEachParentDomainString ends with the lookup's error and the
\* predicate has not been invoked.
C10_NoWalkOnUnresolvedHost ==
  (IsWalk /\ ~WellFormed(uri)) =>
     /\ pc = "done"
     /\ outcome = "threw"
     /\ tested = << >>
     /\ answers = << >>

C10_Witness ==
  /\ IsWalk /\ ~WellFormed(uri)
  /\ pc = "done"
  /\ outcome = "threw"

====
